---- MODULE Spec2Model ----
(***************************************************************************)
(* Model of the chat service's broadcasting core                           *)
(* (src/services/chat-service/main.go): the Hub routing loop, the /ws      *)
(* connection handler, the per-session readPump and writePump goroutines   *)
(* and the Redis channel "chat" shared by the service instances.           *)
(*                                                                         *)
(* One process (instance) runs one Hub goroutine.  An unrecovered panic or *)
(* log.Fatalf ends the whole process, so every goroutine of that instance  *)
(* stops with it.                                                          *)
(*                                                                         *)
(* A channel rendezvous is one step: the Hub's receive on h.register,      *)
(* h.unregister or h.broadcast completes the sender's blocked send.  The   *)
(* broadcast case is split at its observable points: receive, publish,     *)
(* one step per iteration of the range loop, end of the loop.              *)
(*                                                                         *)
(* The user service (src/services/user-service/index.js with its in-memory *)
(* store) and the gateway's health handler (src/services/gateway/index.js) *)
(* are separate programs: each has its own next-state relation and its own *)
(* specification, UserSpec and GatewaySpec, over its own variables.        *)
(***************************************************************************)
EXTENDS Integers, Sequences, FiniteSets, TLC

\* ------------------------------------------------------------------ bounds
\* Number of service instances sharing the Redis channel.
NumInst == 2
\* Number of connections the clients open over the whole run.
NumSess == 2
\* Capacity of a session's send channel (make(chan Message, 256)), scaled.
SendCap == 1
\* Number of frames the clients send over the whole run.
MaxMsgs == 2
\* Number of times a peer disconnects or sends a malformed frame.
MaxDisconnects == 1
\* Number of WriteJSON calls that fail on a connection that is still open.
MaxWriteFails == 1
\* Number of connection requests whose upgrade is rejected.
MaxUpgradeFails == 1
\* Number of requests the user service handles over the whole run.
MaxReqs == 5
\* Number of GET / requests the gateway handles over the whole run.
MaxHealth == 1
\* Number of requests the gateway proxies over the whole run.
MaxProxy == 2

Inst == 1..NumInst
Sess == 1..NumSess

\* ------------------------------------------------------- program constants
\* c.DefaultQuery("user", "anonymous")
DefaultUser == "anonymous"
\* The user query parameter of connection s ("" is: no parameter): the
\* connections alternate between no parameter and a name.
QueryOf(s) == IF s % 2 = 1 THEN "" ELSE "alice"
\* The user_id a client may put in a frame ("" is: omitted).
ClaimedIds == {"", "mallory"}
\* The timestamp field of the k-th frame the clients send (0 is: omitted):
\* the frames alternate between omitting it and supplying one.
TsOf(k) == IF k % 2 = 1 THEN 0 ELSE 7
\* A channel slot / hub register holding no message.
NoMsg == [UserID |-> "", Text |-> 0, Timestamp |-> 0]

VARIABLES
    proc,      \* proc[i]: "boot" | "running" | "fatal" | "panicked"
    clients,   \* clients[i]: h.clients, the registry of instance i
    hpc,       \* hpc[i]: position of Hub.run: "select" | "publish" | "fanout"
    hmsg,      \* hmsg[i]: msg of the broadcast case being handled
    todo,      \* todo[i]: clients the range loop has not visited yet
    home,      \* home[s]: the instance that accepted session s (0: none)
    user,      \* user[s]: Client.user
    send,      \* send[s]: contents of the buffered channel Client.send
    closed,    \* closed[s]: close(client.send) was executed
    conn,      \* conn[s]: "open" | "closed" (server side of the websocket)
    rpc,       \* rpc[s]: /ws handler and readPump of s: "none" | "rejected"
               \*   (upgrade failed, handler returned) | "register" (blocked
               \*   on hub.register) | "read" | "submit" (blocked on
               \*   h.broadcast) | "unreg" (blocked on h.unregister) | "done"
    rmsg,      \* rmsg[s]: msg the readPump is sending on h.broadcast
    wpc,       \* wpc[s]: writePump: "idle" | "range" | "done"
    nsent,     \* number of frames the clients have sent so far
    ndisc,     \* number of disconnects and malformed frames so far
    nwfail,    \* number of failed writes on open connections so far
    bus,       \* messages the Redis channel "chat" has accepted, in order
    \* ---- history (observations only, never read by the program)
    routed,    \* routed[i]: messages received on h.broadcast, in order
    pubLog,    \* publish calls: <<instance, msg, ok>>, in order
    enq,       \* enq[s]: messages ever put on send[s], in order
    wire,      \* wire[s]: frames written to the connection of s, in order
    evicted,   \* sessions removed by the default branch of the fan-out
    disc,      \* sessions whose peer went away while they were registered
    rframe,    \* rframe[s]: the frame as the peer sent it, while the readPump
               \*   of s is sending the decoded message on h.broadcast
    rt,        \* rt[i]: the routing step in progress: its message, the
               \*   registry and the non-full queues when it was received,
               \*   the sessions it found full, the session it came from
               \*   and the text its peer sent
    \* ---- /ws handler
    status,    \* status[s]: HTTP status answered to the request of s (0: none
               \*   yet, 101: switching protocols, 400: bad request)
    nufail,    \* number of rejected upgrades so far
    \* ---- h.mutex
    mutex,     \* mutex[i]: "unlocked" | "RLock" | "Lock" (between two steps
               \*   of the Hub only the read lock of the range loop is held)
    mutLog,    \* history: the writes to h.clients, each with the lock the
               \*   Hub held when it made it
    \* ---- history of the registry
    regAt,     \* regAt[s]: number of messages the Hub of s had received when
               \*   it registered s (-1: not registered yet)
    remAt,     \* remAt[s]: number of messages the Hub of s had received when
               \*   it removed s from the registry (-1: not removed yet)
    \* ---- user service (src/services/user-service/index.js, lib/store)
    inMemory,  \* the Map of the store: a function from the ids it holds to
               \*   the users
    nextId,    \* number of ids uuid.v4() has issued (the ids are 1, 2, ...)
    nreq,      \* number of requests handled; also the clock of new Date()
    res,       \* the response to the last request
    posted,    \* history: posted[id] is the body of the 201 that issued id
    putOk,     \* history: ids a PUT has answered 200 for
    delOk,     \* history: ids a DELETE has answered 204 for
    \* ---- gateway (src/services/gateway/index.js)
    gwpc,      \* healthHandler: "idle" | "probing" | "answered" | "rejected"
    results,   \* results[k]: the promise of the k-th service's probe
    gwres,     \* the body the gateway answered to the last GET /
    nhealth,   \* number of GET / requests so far
    probed,    \* history: probed[k] is what happened to the k-th probe
    pxpc,      \* proxyRequest: "idle" | "fetching"
    pxreq,     \* the request being proxied, or the last one
    pxurl,     \* targetUrl of that request
    pxres,     \* res.statusCode answered to that request (0: none yet)
    contacted, \* history: the urls fetch was called with for that request
    pxreply,   \* history: what that fetch came back with
    nproxy     \* number of proxied requests so far

vars == <<proc, clients, hpc, hmsg, todo, home, user, send, closed, conn,
          rpc, rmsg, wpc, nsent, ndisc, nwfail, bus, routed, pubLog, enq, wire,
          evicted, disc, rframe, rt, status, nufail, mutex, mutLog, regAt,
          remAt, inMemory, nextId, nreq, res, posted, putOk, delOk, gwpc,
          results, gwres, nhealth, probed, pxpc, pxreq, pxurl, pxres,
          contacted, pxreply, nproxy>>

hubVars  == <<proc, clients, hpc, hmsg, todo>>
sessVars == <<home, user>>
envVars  == <<nsent, ndisc, nwfail>>
chanVars == <<send, closed>>
histVars == <<routed, pubLog, enq, wire, evicted, disc, rframe, rt>>
httpVars == <<status, nufail>>
lockVars == <<mutex, mutLog>>
lifeVars == <<regAt, remAt>>
chatVars == <<hubVars, sessVars, envVars, chanVars, histVars, httpVars,
              lockVars, lifeVars, conn, rpc, rmsg, wpc, bus>>
userVars == <<inMemory, nextId, nreq, res, posted, putOk, delOk>>
healthVars == <<gwpc, results, gwres, nhealth, probed>>
pxVars   == <<pxpc, pxreq, pxurl, pxres, contacted, pxreply, nproxy>>
gwVars   == <<healthVars, pxVars>>

\* ----------------------------------------------------------------- helpers
Count(m, q) == Cardinality({k \in 1..Len(q) : q[k] = m})

RECURSIVE IsSubseq(_, _)
IsSubseq(p, q) ==
    IF p = <<>> THEN TRUE
    ELSE IF q = <<>> THEN FALSE
    ELSE IF Head(p) = Head(q) THEN IsSubseq(Tail(p), Tail(q))
    ELSE IsSubseq(p, Tail(q))

\* The goroutines of session s run only while their process does.
Live(s) == home[s] \in Inst /\ proc[home[s]] = "running"

\* ---- user service
\* A field that is absent from a request body, or not set on an object.
Undefined == "undefined"
\* The name and email fields a request body may carry.
Names == {Undefined, "", "ann", "bob"}
Emails == {Undefined, "", "a@x.io"}
\* No user: what Map.get returns for an id the Map does not hold.
NoUser == [id |-> 0, name |-> Undefined, email |-> Undefined, createdAt |-> 0,
           updatedAt |-> 0]
NoBody == [name |-> Undefined, email |-> Undefined]
\* No response yet.
NoRes == [op |-> "none", id |-> 0, body |-> NoBody, status |-> 0,
          user |-> NoUser, list |-> <<>>]

\* ---- gateway
\* const services = [...]
services ==
    <<[name |-> "user-service", base |-> "http://user-service:3001"],
      [name |-> "chat-service", base |-> "http://chat-service:3002"],
      [name |-> "analytics-service", base |-> "http://analytics-service:3003"]>>
\* What may happen to a probe: fetch and r.text() succeed with some status,
\* fetch throws (the service cannot be reached), r.text() throws.
Replies ==
    {[outcome |-> "ok", status |-> 200], [outcome |-> "ok", status |-> 503],
     [outcome |-> "fetch failed", status |-> 0],
     [outcome |-> "text failed", status |-> 200]}
NoReply == [outcome |-> "none", status |-> 0]
NoResult == [name |-> "", ok |-> FALSE, status |-> 0, error |-> ""]
\* A promise that has not settled.
Pending == [state |-> "pending", value |-> NoResult]
\* No answer yet.
NoAnswer == [gateway |-> "", services |-> <<>>]

\* What getTarget returns for a path that matches no service.
Null == "null"
\* Request urls are sequences of characters.
UsersPrefix == <<"/", "u", "s", "e", "r", "s">>
ChatPrefix == <<"/", "c", "h", "a", "t">>
AnalyticsPrefix == <<"/", "a", "n", "a", "l", "y", "t", "i", "c", "s">>
\* The urls of the requests: /, /users, /users/1, /usersx, /user, /chat,
\* /chat/ws, /analytics, /analytics/e, /o, /api/users.
Urls ==
    {<<"/">>, UsersPrefix, UsersPrefix \o <<"/", "1">>, UsersPrefix \o <<"x">>,
     <<"/", "u", "s", "e", "r">>, ChatPrefix, ChatPrefix \o <<"/", "w", "s">>,
     AnalyticsPrefix, AnalyticsPrefix \o <<"/", "e">>, <<"/", "o">>,
     <<"/", "a", "p", "i">> \o UsersPrefix}
Methods == {"GET", "POST"}
\* What may happen to the fetch of a proxied request: a response with some
\* status, or fetch throws (the backend cannot be reached).
ProxyReplies ==
    {[outcome |-> "ok", status |-> 200], [outcome |-> "ok", status |-> 404],
     [outcome |-> "fetch failed", status |-> 0]}
NoFetch == [outcome |-> "none", status |-> 0]
NoReq == [method |-> "", url |-> <<>>]
NoUrl == [base |-> Null, url |-> <<>>]

NoRt == [msg |-> NoMsg, reg |-> {}, nonfull |-> {}, full |-> {}, from |-> 0,
         text |-> 0]

Init ==
    /\ proc = [i \in Inst |-> "boot"]
    /\ clients = [i \in Inst |-> {}]
    /\ hpc = [i \in Inst |-> "select"]
    /\ hmsg = [i \in Inst |-> NoMsg]
    /\ todo = [i \in Inst |-> {}]
    /\ home = [s \in Sess |-> 0]
    /\ user = [s \in Sess |-> ""]
    /\ send = [s \in Sess |-> <<>>]
    /\ closed = [s \in Sess |-> FALSE]
    /\ conn = [s \in Sess |-> "closed"]
    /\ rpc = [s \in Sess |-> "none"]
    /\ rmsg = [s \in Sess |-> NoMsg]
    /\ wpc = [s \in Sess |-> "idle"]
    /\ nsent = 0
    /\ ndisc = 0
    /\ nwfail = 0
    /\ bus = <<>>
    /\ routed = [i \in Inst |-> <<>>]
    /\ pubLog = <<>>
    /\ enq = [s \in Sess |-> <<>>]
    /\ wire = [s \in Sess |-> <<>>]
    /\ evicted = {}
    /\ disc = {}
    /\ rframe = [s \in Sess |-> NoMsg]
    /\ rt = [i \in Inst |-> NoRt]
    /\ status = [s \in Sess |-> 0]
    /\ nufail = 0
    /\ mutex = [i \in Inst |-> "unlocked"]
    /\ mutLog = {}
    /\ regAt = [s \in Sess |-> -1]
    /\ remAt = [s \in Sess |-> -1]
    /\ inMemory = <<>>
    /\ nextId = 0
    /\ nreq = 0
    /\ res = NoRes
    /\ posted = <<>>
    /\ putOk = {}
    /\ delOk = {}
    /\ gwpc = "idle"
    /\ results = [k \in 1..Len(services) |-> Pending]
    /\ gwres = NoAnswer
    /\ nhealth = 0
    /\ probed = [k \in 1..Len(services) |-> NoReply]
    /\ pxpc = "idle"
    /\ pxreq = NoReq
    /\ pxurl = NoUrl
    /\ pxres = 0
    /\ contacted = <<>>
    /\ pxreply = NoFetch
    /\ nproxy = 0

\* ------------------------------------------------------------------- main
\* main(): rdb.Ping succeeds, NewHub, go hub.run().
Start(i) ==
    /\ proc[i] = "boot"
    /\ \A j \in Inst : j < i => proc[j] # "boot"
    /\ proc' = [proc EXCEPT ![i] = "running"]
    /\ UNCHANGED <<clients, hpc, hmsg, todo, sessVars, chanVars, conn, rpc,
                   rmsg, wpc, envVars, bus, histVars>>
    /\ UNCHANGED <<httpVars, lockVars, lifeVars>>
    /\ UNCHANGED <<userVars, gwVars>>

\* main(): rdb.Ping fails, log.Fatalf exits the process.
StartFatal(i) ==
    /\ proc[i] = "boot"
    /\ \A j \in Inst : j < i => proc[j] # "boot"
    /\ proc' = [proc EXCEPT ![i] = "fatal"]
    /\ UNCHANGED <<clients, hpc, hmsg, todo, sessVars, chanVars, conn, rpc,
                   rmsg, wpc, envVars, bus, histVars>>
    /\ UNCHANGED <<httpVars, lockVars, lifeVars>>
    /\ UNCHANGED <<userVars, gwVars>>

\* A lookup that returns the raw parameter.
DefaultQueryRaw(q) == q

\* c.DefaultQuery("user", "anonymous")
DefaultQuery(q) == IF q = "" THEN DefaultUser ELSE q

\* /ws handler up to the send on hub.register: the upgrade succeeded and
\* the Client is built with an empty, open send channel.  Connections are
\* numbered in the order they are accepted, instances in the order they
\* first get one.
Connect(s, i) ==
    /\ proc[i] = "running"
    /\ \A j \in Inst : proc[j] # "boot"
    /\ i <= s
    /\ rpc[s] = "none"
    /\ \A t \in Sess : t < s => rpc[t] # "none"
    /\ rpc' = [rpc EXCEPT ![s] = "register"]
    /\ home' = [home EXCEPT ![s] = i]
    /\ user' = [user EXCEPT ![s] = DefaultQuery(QueryOf(s))]
    /\ conn' = [conn EXCEPT ![s] = "open"]
    /\ status' = [status EXCEPT ![s] = 101]
    /\ UNCHANGED <<hubVars, chanVars, rmsg, wpc, envVars, bus, histVars>>
    /\ UNCHANGED <<nufail, lockVars, lifeVars>>
    /\ UNCHANGED <<userVars, gwVars>>

\* A handler that goes on after the failed upgrade.
ConnectFailNoReturn(s, i) ==
    /\ proc[i] = "running"
    /\ \A j \in Inst : proc[j] # "boot"
    /\ i <= s
    /\ rpc[s] = "none"
    /\ \A t \in Sess : t < s => rpc[t] # "none"
    /\ nufail < MaxUpgradeFails
    /\ nufail' = nufail + 1
    /\ status' = [status EXCEPT ![s] = 400]
    /\ rpc' = [rpc EXCEPT ![s] = "register"]
    /\ home' = [home EXCEPT ![s] = i]
    /\ user' = [user EXCEPT ![s] = DefaultQuery(QueryOf(s))]
    /\ UNCHANGED <<hubVars, chanVars, conn, rmsg, wpc, envVars, bus, histVars>>
    /\ UNCHANGED <<lockVars, lifeVars>>
    /\ UNCHANGED <<userVars, gwVars>>

\* /ws handler when upgrader.Upgrade returns an error: the handler logs,
\* answers 400 {"error": "upgrade failed"} and returns.  No Client is built
\* and nothing is sent on hub.register.
ConnectFail(s, i) ==
    /\ proc[i] = "running"
    /\ \A j \in Inst : proc[j] # "boot"
    /\ i <= s
    /\ rpc[s] = "none"
    /\ \A t \in Sess : t < s => rpc[t] # "none"
    /\ nufail < MaxUpgradeFails
    /\ nufail' = nufail + 1
    /\ status' = [status EXCEPT ![s] = 400]
    /\ rpc' = [rpc EXCEPT ![s] = "rejected"]
    /\ UNCHANGED <<hubVars, sessVars, chanVars, conn, rmsg, wpc, envVars, bus,
                   histVars>>
    /\ UNCHANGED <<lockVars, lifeVars>>
    /\ UNCHANGED <<userVars, gwVars>>

\* ---------------------------------------------------------------- Hub.run
\* case client := <-h.register: h.clients[client] = true
Register(reg, c) == reg \cup {c}

\* A removal that leaves the client in the map.
DeleteNone(reg, c) == reg

\* delete(h.clients, client)
Delete(reg, c) == reg \ {c}

\* close(ch) of a channel that is already closed panics.
ClosePanics(isClosed) == isClosed

\* A send that is taken even when the buffer is full.
CanSendAlways(q) == Len(q) >= 0

\* "case client.send <- msg" is ready iff the buffer has a free slot.
CanSend(q) == Len(q) < SendCap

\* A send that loses the text of the message.
EnqueueBlank(q, m) == Append(q, [m EXCEPT !.Text = 0])

\* client.send <- msg : the message goes to the back of the buffer.
Enqueue(q, m) == Append(q, m)

\* A range loop that misses one client.
RangeClientsSkip(reg) ==
    IF reg = {} THEN {} ELSE reg \ {CHOOSE c \in reg : \A d \in reg : c <= d}

\* for client := range h.clients
RangeClients(reg) == reg

\* A publish that is issued twice.
PublishTwice(b, m, ok) == IF ok THEN Append(Append(b, m), m) ELSE b

\* h.redis.Publish(h.ctx, "chat", string(data)): one PUBLISH command; the
\* channel accepts the message unless the command fails.
Publish(b, m, ok) == IF ok THEN Append(b, m) ELSE b

\* A range loop that is skipped when the publish failed.
LocalTargetsIfPublished(reg, ok) == IF ok THEN RangeClients(reg) ELSE {}

\* The result of Publish is discarded: the range loop runs over h.clients
\* whether the publish succeeded or not.
LocalTargets(reg, ok) == RangeClients(reg)

HubIdle(i) == proc[i] = "running" /\ hpc[i] = "select"

\* case client := <-h.register.  The handler's send on hub.register
\* completes here and the handler starts the two pumps.
HubRegister(i, s) ==
    /\ HubIdle(i)
    /\ rpc[s] = "register" /\ home[s] = i
    /\ clients' = [clients EXCEPT ![i] = Register(@, s)]
    /\ rpc' = [rpc EXCEPT ![s] = "read"]
    /\ wpc' = [wpc EXCEPT ![s] = "range"]
    /\ mutex[i] = "unlocked"
    /\ mutLog' = mutLog \cup {[op |-> "insert", held |-> "Lock"]}
    /\ regAt' = [regAt EXCEPT ![s] = Len(routed[i])]
    /\ UNCHANGED <<proc, hpc, hmsg, todo, sessVars, chanVars, conn, rmsg,
                   envVars, bus, histVars>>
    /\ UNCHANGED <<httpVars, mutex, remAt>>
    /\ UNCHANGED <<userVars, gwVars>>

\* case client := <-h.unregister: delete(h.clients, client);
\* close(client.send).  The readPump's send on h.unregister completes here
\* and its deferred function goes on to c.conn.Close().
HubUnregister(i, s) ==
    /\ HubIdle(i)
    /\ rpc[s] = "unreg" /\ home[s] = i
    /\ clients' = [clients EXCEPT ![i] = Delete(@, s)]
    /\ IF ClosePanics(closed[s])
         THEN proc' = [proc EXCEPT ![i] = "panicked"] /\ closed' = closed
         ELSE proc' = proc /\ closed' = [closed EXCEPT ![s] = TRUE]
    /\ rpc' = [rpc EXCEPT ![s] = "done"]
    /\ conn' = [conn EXCEPT ![s] = "closed"]
    /\ mutex[i] = "unlocked"
    /\ mutLog' = mutLog \cup {[op |-> "delete", held |-> "Lock"]}
    /\ remAt' = IF s \in clients[i]
                  THEN [remAt EXCEPT ![s] = Len(routed[i])]
                  ELSE remAt
    /\ UNCHANGED <<hpc, hmsg, todo, sessVars, send, rmsg, wpc, envVars, bus,
                   histVars>>
    /\ UNCHANGED <<httpVars, mutex, regAt>>
    /\ UNCHANGED <<userVars, gwVars>>

\* case msg := <-h.broadcast.  The readPump's send on h.broadcast completes
\* here and the readPump goes back to ReadJSON.
HubRecv(i, s) ==
    /\ HubIdle(i)
    /\ rpc[s] = "submit" /\ home[s] = i
    /\ hmsg' = [hmsg EXCEPT ![i] = rmsg[s]]
    /\ hpc' = [hpc EXCEPT ![i] = "publish"]
    /\ rpc' = [rpc EXCEPT ![s] = "read"]
    /\ rmsg' = [rmsg EXCEPT ![s] = NoMsg]
    /\ routed' = [routed EXCEPT ![i] = Append(@, rmsg[s])]
    /\ rt' = [rt EXCEPT ![i] =
                [msg |-> rmsg[s], reg |-> clients[i],
                 nonfull |-> {c \in clients[i] : Len(send[c]) < SendCap},
                 full |-> {}, from |-> s, text |-> rframe[s].Text]]
    /\ rframe' = [rframe EXCEPT ![s] = NoMsg]
    /\ UNCHANGED <<proc, clients, todo, sessVars, chanVars, conn, wpc,
                   envVars, bus, pubLog, enq, wire, evicted, disc>>
    /\ UNCHANGED <<httpVars, lockVars, lifeVars>>
    /\ UNCHANGED <<userVars, gwVars>>

\* data, _ := json.Marshal(msg); h.redis.Publish(...); h.mutex.RLock()
\* The result of Publish is discarded.
HubPublish(i, ok) ==
    /\ proc[i] = "running" /\ hpc[i] = "publish"
    /\ bus' = Publish(bus, hmsg[i], ok)
    /\ pubLog' = Append(pubLog,
                   [inst |-> i, msg |-> hmsg[i], ok |-> ok,
                    peers |-> {j \in Inst : proc[j] = "running"},
                    regs |-> UNION {clients[j] : j \in Inst}])
    /\ hpc' = [hpc EXCEPT ![i] = "fanout"]
    /\ todo' = [todo EXCEPT ![i] = LocalTargets(clients[i], ok)]
    /\ mutex[i] = "unlocked"
    /\ mutex' = [mutex EXCEPT ![i] = "RLock"]
    /\ UNCHANGED <<proc, clients, hmsg, sessVars, chanVars, conn, rpc, rmsg,
                   wpc, envVars, routed, enq, wire, evicted, disc, rframe,
                   rt>>
    /\ UNCHANGED <<httpVars, mutLog, lifeVars>>
    /\ UNCHANGED <<userVars, gwVars>>

\* A range loop whose send has no default branch: it waits for a free
\* slot.
HubOfferBlocking(i, c) ==
    /\ proc[i] = "running" /\ hpc[i] = "fanout"
    /\ c \in todo[i]
    /\ closed[c] \/ CanSend(send[c])
    /\ todo' = [todo EXCEPT ![i] = @ \ {c}]
    /\ IF closed[c]
         THEN /\ proc' = [proc EXCEPT ![i] = "panicked"]
              /\ UNCHANGED <<send, enq>>
         ELSE /\ send' = [send EXCEPT ![c] = Enqueue(@, hmsg[i])]
              /\ enq' = [enq EXCEPT ![c] = Append(@, hmsg[i])]
              /\ UNCHANGED proc
    /\ UNCHANGED <<clients, closed, evicted, rt, mutLog, remAt>>
    /\ UNCHANGED <<hpc, hmsg, sessVars, conn, rpc, rmsg, wpc, envVars, bus,
                   routed, pubLog, wire, disc, rframe>>
    /\ UNCHANGED <<httpVars, mutex, regAt>>
    /\ UNCHANGED <<userVars, gwVars>>

\* One iteration of the range loop:
\*   select { case client.send <- msg: default: close(client.send);
\*            delete(h.clients, client) }
\* A send on a closed channel panics.
HubOffer(i, c) ==
    /\ proc[i] = "running" /\ hpc[i] = "fanout"
    /\ c \in todo[i]
    /\ todo' = [todo EXCEPT ![i] = @ \ {c}]
    /\ IF closed[c]
         THEN /\ proc' = [proc EXCEPT ![i] = "panicked"]
              /\ UNCHANGED <<clients, send, closed, enq, evicted, rt, mutLog,
                             remAt>>
         ELSE IF CanSend(send[c])
         THEN /\ send' = [send EXCEPT ![c] = Enqueue(@, hmsg[i])]
              /\ enq' = [enq EXCEPT ![c] = Append(@, hmsg[i])]
              /\ UNCHANGED <<proc, clients, closed, evicted, rt, mutLog,
                             remAt>>
         ELSE /\ closed' = [closed EXCEPT ![c] = TRUE]
              /\ clients' = [clients EXCEPT ![i] = Delete(@, c)]
              /\ evicted' = evicted \cup {c}
              /\ rt' = [rt EXCEPT ![i].full = @ \cup {c}]
              /\ mutLog' = mutLog \cup {[op |-> "delete", held |-> mutex[i]]}
              /\ remAt' = [remAt EXCEPT ![c] = Len(routed[i])]
              /\ UNCHANGED <<proc, send, enq>>
    /\ UNCHANGED <<hpc, hmsg, sessVars, conn, rpc, rmsg, wpc, envVars, bus,
                   routed, pubLog, wire, disc, rframe>>
    /\ UNCHANGED <<httpVars, mutex, regAt>>
    /\ UNCHANGED <<userVars, gwVars>>

\* A loop that goes back to the select before the range is over.
HubDoneEarly(i) ==
    /\ proc[i] = "running" /\ hpc[i] = "fanout"
    /\ hpc' = [hpc EXCEPT ![i] = "select"]
    /\ hmsg' = [hmsg EXCEPT ![i] = NoMsg]
    /\ rt' = [rt EXCEPT ![i] = NoRt]
    /\ mutex[i] = "RLock"
    /\ mutex' = [mutex EXCEPT ![i] = "unlocked"]
    /\ UNCHANGED <<proc, clients, todo, sessVars, chanVars, conn, rpc, rmsg,
                   wpc, envVars, bus, routed, pubLog, enq, wire, evicted,
                   disc, rframe>>
    /\ UNCHANGED <<httpVars, mutLog, lifeVars>>
    /\ UNCHANGED <<userVars, gwVars>>

\* The range loop is over: h.mutex.RUnlock(), back to the select.
HubDone(i) ==
    /\ proc[i] = "running" /\ hpc[i] = "fanout"
    /\ todo[i] = {}
    /\ hpc' = [hpc EXCEPT ![i] = "select"]
    /\ hmsg' = [hmsg EXCEPT ![i] = NoMsg]
    /\ rt' = [rt EXCEPT ![i] = NoRt]
    /\ mutex[i] = "RLock"
    /\ mutex' = [mutex EXCEPT ![i] = "unlocked"]
    /\ UNCHANGED <<proc, clients, todo, sessVars, chanVars, conn, rpc, rmsg,
                   wpc, envVars, bus, routed, pubLog, enq, wire, evicted,
                   disc, rframe>>
    /\ UNCHANGED <<httpVars, mutLog, lifeVars>>
    /\ UNCHANGED <<userVars, gwVars>>

\* --------------------------------------------------------------- readPump
\* An assignment made only when the frame carries no user_id.
StampIfEmpty(frame, u) ==
    IF frame.UserID = "" THEN [frame EXCEPT !.UserID = u] ELSE frame

\* msg.UserID = c.user : the only field the readPump sets.
Stamp(frame, u) == [frame EXCEPT !.UserID = u]

\* c.conn.ReadJSON(&msg) succeeds, msg.UserID = c.user, and the readPump
\* blocks on h.broadcast.
ReaderRead(s, claimed) ==
    /\ Live(s)
    /\ rpc[s] = "read" /\ conn[s] = "open"
    /\ nsent < MaxMsgs
    /\ nsent' = nsent + 1
    /\ rmsg' = [rmsg EXCEPT ![s] =
                  Stamp([UserID |-> claimed, Text |-> nsent + 1,
                         Timestamp |-> TsOf(nsent + 1)], user[s])]
    /\ rframe' = [rframe EXCEPT ![s] =
                    [UserID |-> claimed, Text |-> nsent + 1,
                     Timestamp |-> TsOf(nsent + 1)]]
    /\ rpc' = [rpc EXCEPT ![s] = "submit"]
    /\ UNCHANGED <<hubVars, sessVars, chanVars, conn, wpc, ndisc, nwfail,
                   bus, routed, pubLog, enq, wire, evicted, disc, rt>>
    /\ UNCHANGED <<httpVars, lockVars, lifeVars>>
    /\ UNCHANGED <<userVars, gwVars>>

\* c.conn.ReadJSON fails because the connection was closed by the
\* writePump: break, and the deferred function blocks on h.unregister.
ReaderFail(s) ==
    /\ Live(s)
    /\ rpc[s] = "read" /\ conn[s] = "closed"
    /\ rpc' = [rpc EXCEPT ![s] = "unreg"]
    /\ UNCHANGED <<hubVars, sessVars, chanVars, conn, rmsg, wpc, envVars,
                   bus, histVars>>
    /\ UNCHANGED <<httpVars, lockVars, lifeVars>>
    /\ UNCHANGED <<userVars, gwVars>>

\* A readPump that closes its own queue before it asks the Hub.
ReaderDisconnectCloses(s) ==
    /\ Live(s)
    /\ rpc[s] = "read" /\ conn[s] = "open"
    /\ ndisc < MaxDisconnects
    /\ ndisc' = ndisc + 1
    /\ rpc' = [rpc EXCEPT ![s] = "unreg"]
    /\ disc' = IF s \in clients[home[s]] THEN disc \cup {s} ELSE disc
    /\ closed' = [closed EXCEPT ![s] = TRUE]
    /\ UNCHANGED <<hubVars, sessVars, send, conn, rmsg, wpc, nsent,
                   nwfail, bus, routed, pubLog, enq, wire, evicted, rframe,
                   rt>>
    /\ UNCHANGED <<httpVars, lockVars, lifeVars>>
    /\ UNCHANGED <<userVars, gwVars>>

\* c.conn.ReadJSON fails because the peer closed the connection or sent a
\* malformed frame: break, and the deferred function blocks on
\* h.unregister.
ReaderDisconnect(s) ==
    /\ Live(s)
    /\ rpc[s] = "read" /\ conn[s] = "open"
    /\ ndisc < MaxDisconnects
    /\ ndisc' = ndisc + 1
    /\ rpc' = [rpc EXCEPT ![s] = "unreg"]
    /\ disc' = IF s \in clients[home[s]] THEN disc \cup {s} ELSE disc
    /\ UNCHANGED <<hubVars, sessVars, chanVars, conn, rmsg, wpc, nsent,
                   nwfail, bus, routed, pubLog, enq, wire, evicted, rframe,
                   rt>>
    /\ UNCHANGED <<httpVars, lockVars, lifeVars>>
    /\ UNCHANGED <<userVars, gwVars>>

\* -------------------------------------------------------------- writePump
\* for msg := range c.send : the oldest buffered message is received.
Front(q) == Head(q)
\* A receive that leaves the message in the buffer.
PopKeep(q) == q
Pop(q) == Tail(q)

\* One iteration with a successful c.conn.WriteJSON(msg).
WriterWrite(s) ==
    /\ Live(s)
    /\ wpc[s] = "range"
    /\ send[s] # <<>>
    /\ conn[s] = "open"
    /\ send' = [send EXCEPT ![s] = Pop(@)]
    /\ wire' = [wire EXCEPT ![s] = Append(@, Front(send[s]))]
    /\ UNCHANGED <<hubVars, sessVars, closed, conn, rpc, rmsg, wpc, envVars,
                   bus, routed, pubLog, enq, evicted, disc, rframe, rt>>
    /\ UNCHANGED <<httpVars, lockVars, lifeVars>>
    /\ UNCHANGED <<userVars, gwVars>>

\* One iteration with a failing c.conn.WriteJSON(msg): return, and the
\* deferred c.conn.Close() runs.  A write on a closed connection always
\* fails.
WriterFail(s) ==
    /\ Live(s)
    /\ wpc[s] = "range"
    /\ send[s] # <<>>
    /\ conn[s] = "open" => nwfail < MaxWriteFails
    /\ nwfail' = IF conn[s] = "open" THEN nwfail + 1 ELSE nwfail
    /\ send' = [send EXCEPT ![s] = Pop(@)]
    /\ wpc' = [wpc EXCEPT ![s] = "done"]
    /\ conn' = [conn EXCEPT ![s] = "closed"]
    /\ UNCHANGED <<hubVars, sessVars, closed, rpc, rmsg, nsent, ndisc, bus,
                   histVars>>
    /\ UNCHANGED <<httpVars, lockVars, lifeVars>>
    /\ UNCHANGED <<userVars, gwVars>>

\* A writePump without its deferred c.conn.Close().
WriterExitNoClose(s) ==
    /\ Live(s)
    /\ wpc[s] = "range"
    /\ send[s] = <<>> /\ closed[s]
    /\ wpc' = [wpc EXCEPT ![s] = "done"]
    /\ UNCHANGED <<hubVars, sessVars, chanVars, conn, rpc, rmsg, envVars, bus,
                   histVars>>
    /\ UNCHANGED <<httpVars, lockVars, lifeVars>>
    /\ UNCHANGED <<userVars, gwVars>>

\* The range ends when c.send is closed and drained; the deferred
\* c.conn.Close() runs.
WriterExit(s) ==
    /\ Live(s)
    /\ wpc[s] = "range"
    /\ send[s] = <<>> /\ closed[s]
    /\ wpc' = [wpc EXCEPT ![s] = "done"]
    /\ conn' = [conn EXCEPT ![s] = "closed"]
    /\ UNCHANGED <<hubVars, sessVars, chanVars, rpc, rmsg, envVars, bus,
                   histVars>>
    /\ UNCHANGED <<httpVars, lockVars, lifeVars>>
    /\ UNCHANGED <<userVars, gwVars>>

\* ------------------------------------------------------------------- Next
HubStep(i) ==
    \/ \E s \in Sess : HubRegister(i, s)
    \/ \E s \in Sess : HubUnregister(i, s)
    \/ \E s \in Sess : HubRecv(i, s)
    \/ \E ok \in BOOLEAN : HubPublish(i, ok)
    \/ \E c \in Sess : HubOffer(i, c)
    \/ HubDone(i)

ReaderStep(s) ==
    \/ \E claimed \in ClaimedIds : ReaderRead(s, claimed)
    \/ ReaderFail(s)
    \/ ReaderDisconnect(s)

WriterStep(s) ==
    \/ WriterWrite(s)
    \/ WriterFail(s)
    \/ WriterExit(s)

Next ==
    \/ \E i \in Inst : Start(i)
    \/ \E i \in Inst : StartFatal(i)
    \/ \E s \in Sess, i \in Inst : Connect(s, i)
    \/ \E s \in Sess, i \in Inst : ConnectFail(s, i)
    \/ \E i \in Inst : HubStep(i)
    \/ \E s \in Sess : ReaderStep(s)
    \/ \E s \in Sess : WriterStep(s)

Spec == Init /\ [][Next]_vars

\* Go runs every goroutine that can take a step: the Hub loop of each
\* instance makes progress.  Peers and the network owe nothing.
FairSpec == Spec /\ \A i \in Inst : WF_vars(HubStep(i))

\* A writePump returns from WriteJSON, with a result or an error, whenever
\* it has a message to write: it makes progress too.
FairPumps == FairSpec /\ \A s \in Sess : WF_vars(WriterStep(s))

\* A ReadJSON on a connection that the server has closed returns an error:
\* the readPump of such a connection leaves its loop.
FairReaders == FairPumps /\ \A s \in Sess : WF_vars(ReaderFail(s))

\* =========================================================== user service
\* A test that takes only an absent field for missing.
FalsyUndefinedOnly(v) == v = Undefined

\* !v of JavaScript, for a field that is a string or absent.
Falsy(v) == v \in {Undefined, ""}

\* Map.set(k, v)
MapSet(m, k, v) == [j \in DOMAIN m \cup {k} |-> IF j = k THEN v ELSE m[j]]

\* Map.delete(k)
MapDelete(m, k) == [j \in DOMAIN m \ {k} |-> m[j]]

\* listUsers(): Array.from(inMemory.values()), in insertion order, which
\* is the order of the ids.
ListUsers(m) ==
    LET rank(k) == Cardinality({j \in DOMAIN m : j <= k})
    IN  [r \in 1..Cardinality(DOMAIN m) |->
            m[CHOOSE k \in DOMAIN m : rank(k) = r]]

\* getUser(id): inMemory.get(id)
GetUser(m, id) == IF id \in DOMAIN m THEN m[id] ELSE NoUser

\* A createUser that returns the user without storing it.
CreateUserNoSet(m, id, name, email, now) ==
    [store |-> m,
     user |-> [id |-> id, name |-> name, email |-> email, createdAt |-> now,
               updatedAt |-> 0]]

\* createUser({name, email}): a new id, the user with createdAt,
\* inMemory.set(id, user), return user.
CreateUser(m, id, name, email, now) ==
    LET u == [id |-> id, name |-> name, email |-> email, createdAt |-> now,
                 updatedAt |-> 0]
    IN  [store |-> MapSet(m, id, u), user |-> u]

\* An updateUser that assigns both fields whatever the body carries.
UpdateUserAssignAll(m, id, name, email, now) ==
    IF id \notin DOMAIN m
      THEN [store |-> m, user |-> NoUser]
      ELSE LET u == [m[id] EXCEPT !.name = name, !.email = email,
                                     !.updatedAt = now]
           IN  [store |-> MapSet(m, id, u), user |-> u]

\* updateUser(id, {name, email}): null for an id the Map does not hold;
\* else if (name) user.name = name; if (email) user.email = email;
\* user.updatedAt = now; inMemory.set(id, user); return user.
UpdateUser(m, id, name, email, now) ==
    IF id \notin DOMAIN m
      THEN [store |-> m, user |-> NoUser]
      ELSE LET u == [m[id] EXCEPT
                          !.name = IF Falsy(name) THEN @ ELSE name,
                          !.email = IF Falsy(email) THEN @ ELSE email,
                          !.updatedAt = now]
           IN  [store |-> MapSet(m, id, u), user |-> u]

\* A deleteUser that empties the Map.
DeleteUserClear(m, id) == [store |-> <<>>, existed |-> id \in DOMAIN m]

\* deleteUser(id): inMemory.delete(id), true iff the id was there.
DeleteUser(m, id) == [store |-> MapDelete(m, id), existed |-> id \in DOMAIN m]

\* The ids a request may name: those issued so far and one never issued.
ReqIds == 1..(nextId + 1)

\* GET /users
ListReq ==
    /\ nreq < MaxReqs
    /\ nreq' = nreq + 1
    /\ res' = [NoRes EXCEPT !.op = "LIST", !.status = 200,
                            !.list = ListUsers(inMemory)]
    /\ UNCHANGED <<inMemory, nextId, posted, putOk, delOk>>
    /\ UNCHANGED <<chatVars, gwVars>>

\* GET /users/:id
GetReq(id) ==
    /\ nreq < MaxReqs
    /\ nreq' = nreq + 1
    /\ LET u == GetUser(inMemory, id)
       IN  res' = IF u = NoUser
                    THEN [NoRes EXCEPT !.op = "GET", !.id = id, !.status = 404]
                    ELSE [NoRes EXCEPT !.op = "GET", !.id = id, !.status = 200,
                                       !.user = u]
    /\ UNCHANGED <<inMemory, nextId, posted, putOk, delOk>>
    /\ UNCHANGED <<chatVars, gwVars>>

\* POST /users
PostReq(name, email) ==
    /\ nreq < MaxReqs
    /\ nreq' = nreq + 1
    /\ IF Falsy(name) \/ Falsy(email)
         THEN /\ res' = [NoRes EXCEPT !.op = "POST", !.status = 400,
                                      !.body = [name |-> name,
                                                email |-> email]]
              /\ UNCHANGED <<inMemory, nextId, posted>>
         ELSE LET r == CreateUser(inMemory, nextId + 1, name, email, nreq + 1)
              IN  /\ inMemory' = r.store
                  /\ nextId' = nextId + 1
                  /\ res' = [NoRes EXCEPT !.op = "POST", !.status = 201,
                                          !.id = r.user.id, !.user = r.user,
                                          !.body = [name |-> name,
                                                    email |-> email]]
                  /\ posted' = MapSet(posted, r.user.id, r.user)
    /\ UNCHANGED <<putOk, delOk>>
    /\ UNCHANGED <<chatVars, gwVars>>

\* PUT /users/:id
PutReq(id, name, email) ==
    /\ nreq < MaxReqs
    /\ nreq' = nreq + 1
    /\ LET r == UpdateUser(inMemory, id, name, email, nreq + 1)
       IN  /\ inMemory' = r.store
           /\ IF r.user = NoUser
                THEN /\ res' = [NoRes EXCEPT !.op = "PUT", !.id = id,
                                             !.status = 404,
                                             !.body = [name |-> name,
                                                       email |-> email]]
                     /\ putOk' = putOk
                ELSE /\ res' = [NoRes EXCEPT !.op = "PUT", !.id = id,
                                             !.status = 200, !.user = r.user,
                                             !.body = [name |-> name,
                                                       email |-> email]]
                     /\ putOk' = putOk \cup {id}
    /\ UNCHANGED <<nextId, posted, delOk>>
    /\ UNCHANGED <<chatVars, gwVars>>

\* DELETE /users/:id
DeleteReq(id) ==
    /\ nreq < MaxReqs
    /\ nreq' = nreq + 1
    /\ LET r == DeleteUser(inMemory, id)
       IN  /\ inMemory' = r.store
           /\ IF r.existed
                THEN /\ res' = [NoRes EXCEPT !.op = "DELETE", !.id = id,
                                             !.status = 204]
                     /\ delOk' = delOk \cup {id}
                ELSE /\ res' = [NoRes EXCEPT !.op = "DELETE", !.id = id,
                                             !.status = 404]
                     /\ delOk' = delOk
    /\ UNCHANGED <<nextId, posted, putOk>>
    /\ UNCHANGED <<chatVars, gwVars>>

\* Node runs one request handler at a time; the in-memory store answers
\* within the handler's turn.
UserNext ==
    \/ ListReq
    \/ \E id \in ReqIds : GetReq(id)
    \/ \E name \in Names, email \in Emails : PostReq(name, email)
    \/ \E id \in ReqIds, name \in Names, email \in Emails :
          PutReq(id, name, email)
    \/ \E id \in ReqIds : DeleteReq(id)

UserSpec == Init /\ [][UserNext]_vars

\* ================================================================ gateway
\* A probe without its try/catch: a failure rejects the promise.
ProbeUncaught(s, reply) ==
    IF reply.outcome = "ok"
      THEN [state |-> "fulfilled",
            value |-> [name |-> s.name, ok |-> TRUE, status |-> reply.status,
                       error |-> ""]]
      ELSE [state |-> "rejected", value |-> NoResult]

\* services.map(async (s) => { try { fetch; text; return {name, ok: true,
\* status, body} } catch (err) { return {name, ok: false, error} } })
Probe(s, reply) ==
    IF reply.outcome = "ok"
      THEN [state |-> "fulfilled",
            value |-> [name |-> s.name, ok |-> TRUE, status |-> reply.status,
                       error |-> ""]]
      ELSE [state |-> "fulfilled",
            value |-> [name |-> s.name, ok |-> FALSE, status |-> 0,
                       error |-> reply.outcome]]

\* Promise.all: rejected as soon as one promise is, fulfilled with the
\* values in the order of the array once every promise is fulfilled.
PromiseAll(ps) ==
    IF \E k \in DOMAIN ps : ps[k].state = "rejected"
      THEN [state |-> "rejected", value |-> <<>>]
      ELSE IF \E k \in DOMAIN ps : ps[k].state = "pending"
      THEN [state |-> "pending", value |-> <<>>]
      ELSE [state |-> "fulfilled", value |-> [k \in DOMAIN ps |-> ps[k].value]]

\* GET / arrives: healthHandler starts one probe per service.
HealthStart ==
    /\ gwpc \in {"idle", "answered"}
    /\ nhealth < MaxHealth
    /\ nhealth' = nhealth + 1
    /\ gwpc' = "probing"
    /\ results' = [k \in 1..Len(services) |-> Pending]
    /\ probed' = [k \in 1..Len(services) |-> NoReply]
    /\ gwres' = NoAnswer
    /\ UNCHANGED <<chatVars, userVars>>
    /\ UNCHANGED pxVars

\* The probe of the k-th service settles.
ProbeSettle(k, reply) ==
    /\ gwpc = "probing"
    /\ results[k].state = "pending"
    /\ results' = [results EXCEPT ![k] = Probe(services[k], reply)]
    /\ probed' = [probed EXCEPT ![k] = reply]
    /\ UNCHANGED <<gwpc, gwres, nhealth>>
    /\ UNCHANGED <<chatVars, userVars>>
    /\ UNCHANGED pxVars

\* await Promise.all(...) is over: res.end(JSON.stringify({gateway: "ok",
\* services: results})), or the handler's promise is rejected and nothing
\* is answered.
HealthAnswer ==
    /\ gwpc = "probing"
    /\ PromiseAll(results).state # "pending"
    /\ IF PromiseAll(results).state = "fulfilled"
         THEN /\ gwpc' = "answered"
              /\ gwres' = [gateway |-> "ok",
                           services |-> PromiseAll(results).value]
         ELSE /\ gwpc' = "rejected"
              /\ gwres' = NoAnswer
    /\ UNCHANGED <<results, nhealth, probed>>
    /\ UNCHANGED <<chatVars, userVars>>
    /\ UNCHANGED pxVars

\* String.prototype.startsWith
StartsWith(p, q) == Len(p) >= Len(q) /\ SubSeq(p, 1, Len(q)) = q

\* A getTarget that wants the path to be the prefix itself.
getTargetExact(path) ==
    IF path = UsersPrefix THEN services[1].base
    ELSE IF path = ChatPrefix THEN services[2].base
    ELSE IF path = AnalyticsPrefix THEN services[3].base
    ELSE Null

\* getTarget(path)
getTarget(path) ==
    IF StartsWith(path, UsersPrefix) THEN services[1].base
    ELSE IF StartsWith(path, ChatPrefix) THEN services[2].base
    ELSE IF StartsWith(path, AnalyticsPrefix) THEN services[3].base
    ELSE Null

\* The server's handler gives every request but GET / to proxyRequest:
\* 404 "Not found" when getTarget returns null, else fetch(target + req.url).
ProxyRequest(method, url) ==
    /\ pxpc = "idle"
    /\ nproxy < MaxProxy
    /\ ~(url = <<"/">> /\ method = "GET")
    /\ nproxy' = nproxy + 1
    /\ pxreq' = [method |-> method, url |-> url]
    /\ pxreply' = NoFetch
    /\ IF getTarget(url) = Null
         THEN /\ pxres' = 404
              /\ pxurl' = NoUrl
              /\ contacted' = <<>>
              /\ pxpc' = "idle"
         ELSE /\ pxres' = 0
              /\ pxurl' = [base |-> getTarget(url), url |-> url]
              /\ contacted' = <<[base |-> getTarget(url), url |-> url]>>
              /\ pxpc' = "fetching"
    /\ UNCHANGED healthVars
    /\ UNCHANGED <<chatVars, userVars>>

\* await fetch(...) is over: res.statusCode = response.status, or the
\* catch answers 502.
ProxyAnswer(reply) ==
    /\ pxpc = "fetching"
    /\ pxres' = IF reply.outcome = "ok" THEN reply.status ELSE 502
    /\ pxpc' = "idle"
    /\ pxreply' = reply
    /\ UNCHANGED <<pxreq, pxurl, contacted, nproxy>>
    /\ UNCHANGED healthVars
    /\ UNCHANGED <<chatVars, userVars>>

GatewayNext ==
    \/ HealthStart
    \/ \E k \in 1..Len(services), reply \in Replies : ProbeSettle(k, reply)
    \/ HealthAnswer
    \/ \E method \in Methods, url \in Urls : ProxyRequest(method, url)
    \/ \E reply \in ProxyReplies : ProxyAnswer(reply)

GatewaySpec == Init /\ [][GatewayNext]_vars

\* ================================================================= claims
\* The publish calls made for message m.
PubCalls(m) == {k \in 1..Len(pubLog) : pubLog[k].msg = m}

\* The routing step of instance i has visited every client of its range.
FanoutOver(i) == proc[i] = "running" /\ hpc[i] = "fanout" /\ todo[i] = {}

\* C1. Fan-out completeness: every session that is registered with a
\* non-full queue when a message is routed has exactly one copy of the
\* message appended to its queue once the range loop has visited it, and no
\* queue ever gets the same message twice.
FanOutComplete ==
    /\ \A i \in Inst : hpc[i] = "fanout" =>
          \A s \in rt[i].nonfull \ todo[i] : Count(rt[i].msg, enq[s]) = 1
    /\ \A s \in Sess : \A k \in 1..Len(enq[s]) : Count(enq[s][k], enq[s]) = 1

FanOutCompleteWitness ==
    \E i \in Inst :
        /\ FanoutOver(i)
        /\ Cardinality(rt[i].nonfull) >= 2
        /\ \A s \in rt[i].nonfull : Count(rt[i].msg, enq[s]) = 1

\* C2. Slow-consumer eviction: the range loop's visit of a registered
\* session whose queue is full does not block the Hub; in that same step the
\* session leaves the registry and its queue is closed, nothing is added to
\* it, and when the routing step ends every session it found full is out of
\* the registry with a closed queue while every session that had room when
\* the message arrived has the message.
FullVisit(i, c) ==
    /\ hpc[i] = "fanout" /\ proc[i] = "running"
    /\ c \in todo[i] /\ c \notin todo'[i]
    /\ ~closed[c] /\ Len(send[c]) >= SendCap

SlowConsumerEviction ==
    [][\A i \in Inst :
         /\ \A c \in Sess : FullVisit(i, c) =>
               /\ c \notin clients'[i]
               /\ closed'[c]
               /\ send'[c] = send[c]
               /\ proc'[i] = "running" /\ hpc'[i] = "fanout"
               /\ todo'[i] = todo[i] \ {c}
         /\ (hpc[i] = "fanout" /\ hpc'[i] = "select") =>
               /\ \A c \in rt[i].full :
                     c \notin clients[i] /\ closed[c]
                     /\ Count(rt[i].msg, enq[c]) = 0
               /\ \A c \in rt[i].nonfull : Count(rt[i].msg, enq[c]) = 1]_vars

SlowConsumerEvictionWitness ==
    \E i \in Inst :
        /\ FanoutOver(i)
        /\ rt[i].full # {} /\ rt[i].nonfull # {}
        /\ \A c \in rt[i].full : closed[c] /\ c \notin clients[i]

\* C3. Backpressure isolation over time: once a session evicted for a full
\* queue has finished its shutdown (writePump and readPump both over), the
\* Hub of its instance is still running.
BackpressureIsolation ==
    \A s \in evicted :
        (rpc[s] = "done" /\ wpc[s] = "done") => proc[home[s]] = "running"

\* C4. unregister is idempotent: handling unregister(s) for a session that
\* is not in the registry changes neither the Hub, nor the registry, nor
\* any queue.
AbsentUnregister(s) ==
    /\ rpc[s] = "unreg" /\ rpc'[s] = "done"
    /\ s \notin clients[home[s]]

UnregisterIdempotent ==
    [][\A s \in Sess : AbsentUnregister(s) =>
          /\ proc' = proc
          /\ clients' = clients
          /\ send' = send
          /\ closed' = closed]_vars

\* C5. Session failures never propagate: whatever read failures, write
\* failures and evictions happened, no Hub loop has ended in a panic.
HubNeverPanics == \A i \in Inst : proc[i] # "panicked"

Served(b) ==
    /\ home[b] \in Inst
    /\ proc[home[b]] = "running"
    /\ b \in clients[home[b]]
    /\ ~closed[b]

DisconnectIsolation ==
    [][\A a \in disc : (rpc[a] = "unreg" /\ rpc'[a] = "done") =>
          \A b \in Sess \ {a} : Served(b) => Served(b)']_vars

\* C8. Non-echo: once the fleet is quiet, a message that one instance put
\* on the bus has been handed to the local distribution of every instance
\* that was running when it was published, and the bus carries it once.
Quiet ==
    /\ \A i \in Inst : hpc[i] = "select"
    /\ \A s \in Sess : rpc[s] \notin {"register", "submit", "unreg"}

Distributed(j) == {routed[j][k] : k \in 1..Len(routed[j])}

NonEcho ==
    Quiet =>
        \A k \in 1..Len(pubLog) : pubLog[k].ok =>
            /\ Count(pubLog[k].msg, bus) = 1
            /\ \A j \in pubLog[k].peers \ {pubLog[k].inst} :
                  proc[j] = "running" => pubLog[k].msg \in Distributed(j)

\* C9. Cross-instance mirroring: a message published by one instance is
\* eventually on the queue of every session that was registered on another
\* running instance when it was published, unless that session leaves the
\* registry first.
MirrorDue(s, n) ==
    \E k \in 1..Len(pubLog) :
        /\ pubLog[k].ok /\ pubLog[k].msg.Text = n
        /\ pubLog[k].inst # home[s]
        /\ s \in pubLog[k].regs
        /\ Served(s)

MirrorDone(s, n) ==
    \/ \E k \in 1..Len(enq[s]) : enq[s][k].Text = n
    \/ ~Served(s)

CrossInstanceMirroring ==
    \A s \in Sess : \A n \in 1..MaxMsgs : MirrorDue(s, n) ~> MirrorDone(s, n)

\* C10. Publish exactly once: for every message a Hub has routed, once its
\* publish step is over, exactly one publish call was made, and the bus
\* carries the message once (not at all when that call failed); nothing
\* else is ever on the bus.
PublishOnce ==
    /\ \A i \in Inst : \A k \in 1..Len(routed[i]) :
          (k = Len(routed[i]) /\ hpc[i] = "publish")
          \/ /\ Cardinality(PubCalls(routed[i][k])) = 1
             /\ \A c \in PubCalls(routed[i][k]) :
                   /\ pubLog[c].inst = i
                   /\ Count(routed[i][k], bus) = IF pubLog[c].ok THEN 1 ELSE 0
    /\ \A k \in 1..Len(bus) : \E c \in 1..Len(pubLog) : pubLog[c].msg = bus[k]

PublishOnceWitness ==
    \E i \in Inst :
        /\ FanoutOver(i)
        /\ rt[i].full # {}
        /\ Count(rt[i].msg, bus) = 1
        /\ Cardinality(PubCalls(rt[i].msg)) = 1

\* The publish call made for message m failed.
PubFailed(m) == \E k \in PubCalls(m) : ~pubLog[k].ok

\* C11. Bus failure does not stop local delivery: a publish step that puts
\* nothing on the bus leaves the Hub running and every pump where it was,
\* starts the range loop over the whole registry, and when the routing step
\* of a message whose publish failed ends, every session that had room when
\* the message arrived has it.
BusFailureLocalDelivery ==
    [][\A i \in Inst :
         /\ (hpc[i] = "publish" /\ hpc'[i] # "publish" /\ bus' = bus) =>
               /\ proc' = proc /\ hpc'[i] = "fanout"
               /\ todo'[i] = clients[i]
               /\ clients' = clients /\ rpc' = rpc /\ wpc' = wpc
         /\ (hpc[i] = "fanout" /\ hpc'[i] = "select"
               /\ PubFailed(rt[i].msg)) =>
               \A c \in rt[i].nonfull : Count(rt[i].msg, enq[c]) = 1]_vars

BusFailureLocalDeliveryWitness ==
    \E i \in Inst :
        /\ FanoutOver(i)
        /\ PubFailed(rt[i].msg)
        /\ rt[i].nonfull # {}
        /\ \A c \in rt[i].nonfull : Count(rt[i].msg, enq[c]) = 1

\* C12. Bus unreachable at startup: an instance whose startup cannot reach
\* the bus still comes up; no instance ends its startup dead.
StartsWithoutBus == \A i \in Inst : proc[i] # "fatal"

\* C13. Participant id is server-assigned: the message a readPump sends to
\* the Hub carries the user of its session and the text of the frame,
\* whatever user_id the frame carried, and so does the message the Hub is
\* routing.
ParticipantServerAssigned ==
    /\ \A s \in Sess : rpc[s] = "submit" =>
          /\ rmsg[s].UserID = user[s]
          /\ rmsg[s].Text = rframe[s].Text
    /\ \A i \in Inst : rt[i].from # 0 =>
          rt[i].msg.UserID = user[rt[i].from]

ParticipantServerAssignedWitness ==
    \E s \in Sess :
        /\ rpc[s] = "submit"
        /\ rframe[s].UserID = "mallory"
        /\ rmsg[s].UserID = user[s]
        /\ user[s] # "mallory"

\* C14. Timestamp is server-assigned: a message put on a session's queue
\* has a timestamp that is not zero and is not the one of the peer's frame.
TimestampServerAssigned ==
    \A s \in Sess : \A k \in 1..Len(enq[s]) :
        enq[s][k].Timestamp \notin {0, TsOf(enq[s][k].Text)}

\* C15 as stated. Broadcast includes the sender: when the routing step of
\* a message sent by a registered session ends, the message has been put on
\* that session's queue.
SenderAlwaysGetsCopy ==
    \A i \in Inst :
        (FanoutOver(i) /\ rt[i].from \in rt[i].reg) =>
            Count(rt[i].msg, enq[rt[i].from]) = 1

\* C15 amended. Broadcast includes the sender when its queue has room: the
\* range loop's visit of a session with room appends the routed message,
\* its text as the peer sent it, to that session's queue and keeps the
\* session registered; when the routing step of a message sent by a
\* registered session whose queue had room ends, the message has been put
\* once on the sender's queue and on every other queue that had room.
RoomVisit(i, c) ==
    /\ hpc[i] = "fanout" /\ proc[i] = "running"
    /\ c \in todo[i] /\ c \notin todo'[i]
    /\ ~closed[c] /\ Len(send[c]) < SendCap

BroadcastIncludesSender ==
    [][\A i \in Inst :
         /\ \A c \in Sess : RoomVisit(i, c) =>
               /\ send'[c] = Append(send[c], rt[i].msg)
               /\ rt[i].msg.Text = rt[i].text
               /\ c \in clients'[i]
         /\ (hpc[i] = "fanout" /\ hpc'[i] = "select"
               /\ rt[i].from \in rt[i].nonfull) =>
               \A c \in rt[i].nonfull : Count(rt[i].msg, enq[c]) = 1]_vars

BroadcastIncludesSenderWitness ==
    \E i \in Inst :
        /\ FanoutOver(i)
        /\ rt[i].from \in rt[i].nonfull
        /\ Cardinality(rt[i].nonfull) >= 2
        /\ \E k \in 1..Len(send[rt[i].from]) :
              send[rt[i].from][k].Text = rt[i].text

\* C16. Default participant: a session accepted without a user parameter
\* has the user "anonymous" in every state from its acceptance on, and
\* every message its readPump sends and the Hub routes for it carries
\* "anonymous".
DefaultParticipant ==
    \A s \in Sess : (rpc[s] \notin {"none", "rejected"} /\ QueryOf(s) = "") =>
        /\ user[s] = "anonymous"
        /\ rpc[s] = "submit" => rmsg[s].UserID = "anonymous"
        /\ \A i \in Inst : rt[i].from = s =>
              rt[i].msg.UserID = "anonymous" /\ hmsg[i].UserID = "anonymous"

DefaultParticipantWitness ==
    \E i \in Inst :
        /\ hpc[i] = "fanout"
        /\ rt[i].from # 0
        /\ QueryOf(rt[i].from) = ""
        /\ rt[i].msg.UserID = "anonymous"

\* C17 as stated. Registry membership: a session is in the registry if
\* and only if its readPump and its writePump are both in their loops.
RegistryIffLoopsActive ==
    \A s \in Sess : home[s] \in Inst =>
        (s \in clients[home[s]]
            <=> (rpc[s] \in {"read", "submit"} /\ wpc[s] = "range"))

\* C17 amended. A session in the registry has a readPump whose unregister
\* the Hub has not taken yet: once the Hub has taken it the session is out
\* of the registry.
RegisteredHasReader ==
    \A s \in Sess : home[s] \in Inst =>
        (s \in clients[home[s]] => rpc[s] \in {"read", "submit", "unreg"})

RegisteredHasReaderWitness ==
    \E s \in Sess :
        /\ home[s] \in Inst
        /\ s \in clients[home[s]]
        /\ rpc[s] = "unreg"
        /\ wpc[s] = "done"

\* C18. No send-after-close: every session in the registry has an open
\* queue, and every client the range loop has still to visit is registered
\* with an open queue.
NoSendAfterClose ==
    \A i \in Inst :
        /\ \A s \in clients[i] : ~closed[s]
        /\ hpc[i] = "fanout" =>
              \A c \in todo[i] : ~closed[c] /\ c \in clients[i]

NoSendAfterCloseWitness ==
    \E i \in Inst :
        /\ proc[i] = "running" /\ hpc[i] = "fanout"
        /\ todo[i] # {}
        /\ \E s \in Sess : home[s] = i /\ closed[s]

\* C19. Reader exit always unregisters: a session whose readPump has left
\* its loop and issued its unregister is eventually out of the registry
\* with its queue closed.
Unregistered(s) ==
    home[s] \in Inst /\ s \notin clients[home[s]] /\ closed[s]

ReaderExitUnregisters ==
    \A s \in Sess : (rpc[s] = "unreg") ~> Unregistered(s)

\* C20. Writer termination: a writePump whose queue has been closed
\* eventually terminates.
WriterTerminates ==
    \A s \in Sess : (closed[s] /\ wpc[s] = "range") ~> (wpc[s] = "done")

\* The connection of s is closed: c.conn.Close() was executed, or the
\* process of s has ended (the sockets of a process end with it).
ConnClosed(s) ==
    \/ conn[s] = "closed"
    \/ home[s] \in Inst /\ proc[home[s]] = "panicked"

\* The messages the Hub of s received from the one that evicted s on.
FromEviction(s) ==
    {routed[home[s]][k] : k \in remAt[s]..Len(routed[home[s]])}

FailedConnect ==
    [][\A s \in Sess :
         /\ (status[s] = 0 /\ rpc'[s] = "rejected") =>
               /\ status'[s] = 400
               /\ clients' = clients /\ todo' = todo
               /\ send' = send /\ closed' = closed /\ conn' = conn
               /\ wpc' = wpc /\ home' = home
               /\ \A c \in Sess \ {s} : rpc'[c] = rpc[c]
         /\ status'[s] = 400 =>
               /\ rpc'[s] = "rejected"
               /\ home'[s] = 0 /\ conn'[s] = "closed"
               /\ send'[s] = <<>> /\ ~closed'[s] /\ wpc'[s] = "idle"
               /\ regAt'[s] = -1
               /\ \A i \in Inst : s \notin clients'[i] /\ s \notin todo'[i]]_vars

FailedConnectWitness ==
    \E s, c \in Sess :
        /\ s < c
        /\ status[s] = 400 /\ rpc[s] = "rejected"
        /\ status[c] = 101 /\ wire[c] # <<>>
        /\ c \in clients[home[c]]

\* C27. Registry locking discipline: every write to the registry (the
\* insert of a session, its removal on unregister, its removal on eviction)
\* was made with the exclusive lock held.
LockingDiscipline == \A w \in mutLog : w.held = "Lock"

\* Session s is in the registry of its instance.
Registered(s) == home[s] \in Inst /\ s \in clients[home[s]]

\* C28. Write failure leads to removal: a registered session whose
\* writePump has ended on a failed write is eventually out of the registry,
\* and until then the range loop's visit of it, when its queue has room,
\* puts the message on its queue and leaves the Hub running.
WriteFailureLeadsToRemoval ==
    /\ \A s \in Sess : (Registered(s) /\ wpc[s] = "done") ~> ~Registered(s)
    /\ [][\A i \in Inst : \A c \in Sess :
             (RoomVisit(i, c) /\ wpc[c] = "done") =>
                 /\ send'[c] = Append(send[c], hmsg[i])
                 /\ proc'[i] = "running"]_vars

\* C28 when the end of the process counts as the removal of its sessions.
WriteFailureRemovedOrDead ==
    \A s \in Sess :
        (Registered(s) /\ wpc[s] = "done")
            ~> (~Registered(s) \/ proc[home[s]] = "panicked")

\* The lifecycle of session s: 0 before the Hub registers it, 1 while it is
\* registered, 2 from its removal on.
Phase(s) == IF regAt[s] = -1 THEN 0 ELSE IF remAt[s] = -1 THEN 1 ELSE 2

\* C29. No resurrection: in every step the lifecycle of a session stays or
\* moves forward; a session is in the registry exactly while it is in the
\* registered phase, so a removed session is never added back; a closed
\* queue stays closed, and the queue of a removed session is closed.
NoResurrection ==
    [][\A s \in Sess :
         /\ Phase(s)' >= Phase(s)
         /\ Registered(s)' <=> Phase(s)' = 1
         /\ closed[s] => closed'[s]
         /\ Phase(s)' = 2 => closed'[s]]_vars

NoResurrectionWitness ==
    \E s, c \in Sess :
        /\ s # c /\ home[s] = home[c]
        /\ Phase(s) = 2 /\ rpc[s] = "done" /\ closed[s]
        /\ Phase(c) = 1 /\ regAt[c] >= remAt[s]
        /\ enq[c] # <<>>

\* The last message the Hub of s received has not reached s yet: the Hub
\* is publishing it, or its range loop has still to visit s.
NotReached(s) ==
    /\ Phase(s) = 1
    /\ \/ hpc[home[s]] = "publish"
       \/ hpc[home[s]] = "fanout" /\ s \in todo[home[s]]

\* The messages routed while s was registered: those its Hub received
\* after it registered s, up to the one being routed now (registered
\* session), the last one received before its unregister was handled, or
\* the last one before the message whose visit evicted it.
WindowEnd(s) ==
    IF Phase(s) = 1
      THEN Len(routed[home[s]]) - (IF NotReached(s) THEN 1 ELSE 0)
      ELSE IF s \in evicted THEN remAt[s] - 1 ELSE remAt[s]

Window(s) == SubSeq(routed[home[s]], regAt[s] + 1, WindowEnd(s))

\* C30. Delivery window: the messages ever put on the queue of a session
\* are exactly, in order, the messages routed after the Hub registered it
\* and before it removed it (by unregister, or by the routing step whose
\* visit found the queue full); before its registration its queue got
\* nothing.
DeliveryWindow ==
    \A s \in Sess :
        enq[s] = IF Phase(s) = 0 THEN <<>> ELSE Window(s)

DeliveryWindowWitness ==
    \E s, c \in Sess :
        /\ s # c /\ home[s] = home[c]
        /\ Phase(s) = 2 /\ s \notin evicted
        /\ Len(routed[home[s]]) > remAt[s]
        /\ enq[s] # <<>>
        /\ Phase(c) = 1 /\ regAt[c] >= 1 /\ ~NotReached(c)
        /\ enq[c] # <<>>

\* The ids a POST has issued and no DELETE has answered 204 for.
Alive == DOMAIN posted \ delOk

\* The user of id as GET /users/:id and GET /users must show it: the user
\* with that id, and the very body of the 201 while no PUT of that id has
\* succeeded.
AsCreated(u, id) ==
    /\ u.id = id
    /\ id \notin putOk => u = posted[id]

\* C23. User service create/read: for every id a POST has answered 201
\* with and no DELETE has succeeded on, whatever requests were handled in
\* between, the store holds the created user, a GET /users/:id of it
\* answers 200 with that user and a GET /users answers 200 with a list
\* that includes it; the 201 carries the name and the email of the request.
CreateThenRead ==
    /\ \A id \in Alive :
          /\ AsCreated(GetUser(inMemory, id), id)
          /\ \E k \in 1..Len(ListUsers(inMemory)) :
                AsCreated(ListUsers(inMemory)[k], id)
    /\ (res.op = "GET" /\ res.id \in Alive) =>
          res.status = 200 /\ AsCreated(res.user, res.id)
    /\ res.op = "LIST" =>
          /\ res.status = 200
          /\ \A id \in Alive :
                \E k \in 1..Len(res.list) : AsCreated(res.list[k], id)
    /\ (res.op = "POST" /\ res.status = 201) =>
          /\ res.id \in Alive /\ res.user.id = res.id
          /\ res.user.name = res.body.name
          /\ res.user.email = res.body.email

CreateThenReadWitness ==
    /\ res.op = "GET" /\ res.status = 200
    /\ res.id \in Alive \ putOk
    /\ res.user = posted[res.id]
    /\ delOk # {} /\ putOk # {}
    /\ nextId >= 2

HealthAggregation ==
    /\ gwpc # "rejected"
    /\ gwpc = "answered" =>
          /\ gwres.gateway = "ok"
          /\ Len(gwres.services) = Len(services)
          /\ \A k \in 1..Len(services) :
                /\ gwres.services[k].name = services[k].name
                /\ IF probed[k].outcome = "ok"
                     THEN /\ gwres.services[k].ok
                          /\ gwres.services[k].status = probed[k].status
                     ELSE /\ ~gwres.services[k].ok
                          /\ gwres.services[k].error = probed[k].outcome
                          /\ gwres.services[k].error # ""

HealthAggregationWitness ==
    /\ gwpc = "answered"
    /\ gwres.gateway = "ok"
    /\ probed[1].outcome = "fetch failed" /\ ~gwres.services[1].ok
    /\ probed[2].outcome = "ok" /\ gwres.services[2].ok
    /\ probed[3].outcome = "text failed" /\ ~gwres.services[3].ok

\* C31  Bounded queue: the number of messages buffered in a session's send
\* channel never exceeds the capacity the channel was made with
\* (make(chan Message, 256), scaled to SendCap), whatever the order of the
\* Hub's sends and the writePump's receives.
BoundedQueue == \A s \in Sess : Len(send[s]) <= SendCap

\* A queue at capacity that the Hub visited once more: the visit evicted
\* the session and the queue still holds SendCap messages.
BoundedQueueWitness ==
    \E s \in Sess : s \in evicted /\ Len(send[s]) = SendCap /\ closed[s]

\* C32  Unregister frame: the step that handles unregister(a), or that
\* evicts a, leaves every other session as it was: its membership of the
\* registry, the contents of its queue and whether the queue is closed.
\* The registry and the queues live in the memory of the instance, so a
\* session has them only as long as its process runs.
SessionState(b) ==
    IF Live(b)
      THEN [live |-> TRUE, member |-> b \in clients[home[b]],
            queue |-> send[b], closed |-> closed[b]]
      ELSE [live |-> FALSE, member |-> FALSE, queue |-> <<>>,
            closed |-> TRUE]

Evicts(i, a) == HubOffer(i, a) /\ ~closed[a] /\ closed'[a]

UnregisterFrame ==
    [][\A i \in Inst, a \in Sess :
          (HubUnregister(i, a) \/ Evicts(i, a)) =>
              \A b \in Sess \ {a} : SessionState(b)' = SessionState(b)]_vars

\* C33  The Hub never stalls on a session: a Hub loop that runs and has
\* something to do (it is inside a case, or a handler or readPump is blocked
\* on one of its channels) can always take a step, queues full and never
\* drained included; and a pending register, unregister or message is
\* accepted by the Hub, as long as its process runs.  The writePumps owe
\* nothing here: only the Hub loops are fair.
PendingReq(s) == rpc[s] \in {"register", "unreg", "submit"}

HubHasWork(i) ==
    /\ proc[i] = "running"
    /\ hpc[i] # "select" \/ \E s \in Sess : PendingReq(s) /\ home[s] = i

PublishAttempted(i, m) ==
    \E c \in 1..Len(pubLog) : pubLog[c].inst = i /\ pubLog[c].msg = m

OfferedTo(i, c) ==
    \/ c \in rt[i].full
    \/ enq[c] # <<>> /\ enq[c][Len(enq[c])] = rt[i].msg

PublishPrecedesDistribution ==
    /\ \A s \in Sess : \A k \in 1..Len(enq[s]) :
          PublishAttempted(home[s], enq[s][k])
    /\ \A i \in Inst :
          /\ hpc[i] = "select" => todo[i] = {}
          /\ hpc[i] = "fanout" =>
                /\ rt[i].msg = routed[i][Len(routed[i])]
                /\ PublishAttempted(i, rt[i].msg)
                /\ clients[i] \subseteq rt[i].reg
                /\ rt[i].reg \ clients[i] \subseteq rt[i].full
                /\ proc[i] = "running" =>
                      \A c \in rt[i].reg \ todo[i] : OfferedTo(i, c)

\* The range loop of a message whose publish failed is over, and both
\* sessions of the registry have the message on their queues.
PublishPrecedesDistributionWitness ==
    \E i \in Inst :
        /\ FanoutOver(i)
        /\ Cardinality(rt[i].reg) = 2 /\ rt[i].full = {}
        /\ \A c \in rt[i].reg : OfferedTo(i, c)
        /\ \E k \in 1..Len(pubLog) :
              pubLog[k].msg = rt[i].msg /\ ~pubLog[k].ok

\* C35  Create validation: a POST /users whose body has no name or no
\* email, the field absent or the empty string, is answered 400 and
\* creates nothing: the stored users and the id counter are as before.
PostStep == nreq' = nreq + 1 /\ res'.op = "POST"

CreateValidation ==
    [][(PostStep /\ (res'.body.name \in {Undefined, ""}
                      \/ res'.body.email \in {Undefined, ""})) =>
          /\ res'.status = 400
          /\ inMemory' = inMemory
          /\ nextId' = nextId]_vars

\* A POST with a name and an empty email was refused while the store held
\* a user.
CreateValidationWitness ==
    /\ res.op = "POST" /\ res.status = 400
    /\ res.body.name = "ann" /\ res.body.email = ""
    /\ DOMAIN inMemory # {}

\* C36  Gateway routing: for the request the gateway proxied last, a url
\* that starts with /users, /chat or /analytics was fetched once, from the
\* user, chat or analytics service, under the url of the request; a url
\* with none of these prefixes was answered 404 with nothing fetched; and
\* once the fetch is over, the answer is 502 if it failed and the
\* backend's status otherwise.
BaseOf(name) ==
    services[CHOOSE k \in 1..Len(services) : services[k].name = name].base

ForwardedTo(name) ==
    /\ contacted = <<[base |-> BaseOf(name), url |-> pxreq.url]>>
    /\ pxpc = "idle" =>
          /\ pxreply.outcome = "fetch failed" => pxres = 502
          /\ pxreply.outcome = "ok" => pxres = pxreply.status

GatewayRouting ==
    pxreq # NoReq =>
        /\ StartsWith(pxreq.url, UsersPrefix) => ForwardedTo("user-service")
        /\ StartsWith(pxreq.url, ChatPrefix) => ForwardedTo("chat-service")
        /\ StartsWith(pxreq.url, AnalyticsPrefix) =>
              ForwardedTo("analytics-service")
        /\ (\A q \in {UsersPrefix, ChatPrefix, AnalyticsPrefix} :
                ~StartsWith(pxreq.url, q)) =>
              pxres = 404 /\ contacted = <<>> /\ pxpc = "idle"

\* /chat/ws was forwarded to the chat service, which could not be reached:
\* the second request of the run, after another one was proxied.
GatewayRoutingWitness ==
    /\ nproxy = 2
    /\ pxreq.url = ChatPrefix \o <<"/", "w", "s">>
    /\ contacted = <<[base |-> "http://chat-service:3002", url |-> pxreq.url]>>
    /\ pxreply.outcome = "fetch failed" /\ pxres = 502

\* C37  Single mutator: a step that changes a session's membership of a
\* registry, or closes a session's queue, is a step of the Hub loop of the
\* session's instance, and it changes them for that one session only.  No
\* step of a readPump, a writePump or the /ws handler changes either.
Member(s) == {i \in Inst : s \in clients[i]}

Mutated(s) == Member(s)' # Member(s) \/ closed'[s] # closed[s]

SingleMutator ==
    [][\A s \in Sess : Mutated(s) =>
          /\ home[s] \in Inst /\ HubStep(home[s])
          /\ Member(s)' \subseteq {home[s]}
          /\ \A t \in Sess \ {s} : ~Mutated(t)]_vars

\* The Hub loops have made every kind of mutation: an insert, a removal
\* on unregister and a removal on eviction, and a queue was closed by an
\* unregister.
SingleMutatorWitness ==
    /\ \E s \in Sess : closed[s] /\ s \notin evicted
    /\ \E s \in evicted : closed[s]
    /\ {e.op : e \in mutLog} = {"insert", "delete"}
    /\ {e.held : e \in {f \in mutLog : f.op = "delete"}} = {"Lock", "RLock"}
====
